---- MODULE Spec2Model ----
(***************************************************************************)
(* Model of app.py: the process-wide dataset cache (load_full_dataset),    *)
(* the series preparer (load_and_preprocess_data), the daily aggregator    *)
(* (calculate_daily_aqi) and the forecast engine (forecast_aqi_arima with  *)
(* its deterministic fallback forecast_aqi_simple).                        *)
(*                                                                         *)
(* Representation.  A float is a fixed-point integer with Scale units per  *)
(* AQI point; a value that may be missing (None / NaN) is a sequence of    *)
(* length at most one: <<>> is missing, <<v>> is the value v.  A string is *)
(* a sequence of one-character strings.  A date is a day number.           *)
(***************************************************************************)
EXTENDS Integers, Sequences, FiniteSets, TLC

VARIABLES
    file,        \* data/city_day.csv on disk: [kind, rows]
    cache,       \* _data_cache: NoTable or [id, rows]
    loads,       \* number of times the dataset was read and normalized
    pc,          \* per thread: position inside load_full_dataset
    local,       \* per thread: the table df built by load_full_dataset
    ret,         \* per thread: what load_full_dataset returned
    reqCity,     \* city argument of the last load_and_preprocess_data call
    source,      \* df after the city filter of that call (before gap filling)
    filled,      \* df['aqi'] after the gap filling of that call
    prepared,    \* what that call returned: <<>> for None, <<rows>> for a table
    dailyOut,    \* what calculate_daily_aqi returned in the last daily_trend
    status,      \* HTTP status of the last response
    fpc,         \* position of the forecast_aqi_arima call
    series,      \* its df argument: the daily series
    horizon,     \* its forecast_days argument
    arimaAvailable, \* ARIMA_AVAILABLE
    attempts,    \* strategies attempted so far, in order
    raised,      \* what raised so far: [strategy, stage] records
    fitted,      \* the order whose fit succeeded: <<>> or <<order>>
    forecastOut  \* what the call returned: <<>> for None, <<[from, rows]>>,
                 \* from being the strategy that produced the rows

cacheVars == <<file, cache, loads, pc, local, ret>>
prepVars == <<reqCity, source, filled, prepared, dailyOut, status>>
fcVars == <<fpc, series, horizon, arimaAvailable, attempts, raised, fitted, forecastOut>>
vars == <<cacheVars, prepVars, fcVars>>

(***************************************************************************)
(* Bounds of the model.                                                    *)
(***************************************************************************)
MaxRows == 2        \* rows of the dataset file
NThreads == 2       \* concurrent request threads
MaxSeriesDate == 8  \* dates of a daily series given to the forecast engine
MaxHorizon == 2     \* forecast_days is 0..MaxHorizon

Scale == 10         \* fixed-point units per AQI point

(***************************************************************************)
(* Missing values.                                                         *)
(***************************************************************************)
NaN == <<>>
Num(v) == <<v>>
IsNaN(x) == x = <<>>
Val(x) == x[1]

None == <<>>
Some(x) == <<x>>

Min2(a, b) == IF a <= b THEN a ELSE b
Max2(a, b) == IF a >= b THEN a ELSE b

(***************************************************************************)
(* Strings: str.strip and str.lower over the characters the model uses.    *)
(***************************************************************************)
AllCities == <<"A", "l", "l", " ", "C", "i", "t", "i", "e", "s">>

CharLower(c) ==
    CASE c = "A" -> "a"
      [] c = "C" -> "c"
      [] c = "D" -> "d"
      [] c = "M" -> "m"
      [] OTHER -> c

Lower(s) == [i \in 1..Len(s) |-> CharLower(s[i])]

RECURSIVE LStrip(_)
LStrip(s) == IF s # <<>> /\ Head(s) = " " THEN LStrip(Tail(s)) ELSE s

RECURSIVE RStrip(_)
RStrip(s) ==
    IF s # <<>> /\ s[Len(s)] = " " THEN RStrip(SubSeq(s, 1, Len(s) - 1)) ELSE s

Strip(s) == RStrip(LStrip(s))

\* Code point order of the characters, for sorting city labels.
CharCode(c) ==
    CASE c = " " -> 32
      [] c = "A" -> 65
      [] c = "C" -> 67
      [] c = "D" -> 68
      [] c = "M" -> 77
      [] c = "a" -> 97
      [] c = "c" -> 99
      [] c = "d" -> 100
      [] c = "e" -> 101
      [] c = "i" -> 105
      [] c = "l" -> 108
      [] c = "m" -> 109
      [] c = "s" -> 115
      [] c = "t" -> 116
      [] OTHER -> 120

RECURSIVE StrLess(_, _)
StrLess(s, t) ==
    IF t = <<>> THEN FALSE
    ELSE IF s = <<>> THEN TRUE
    ELSE IF CharCode(Head(s)) # CharCode(Head(t))
         THEN CharCode(Head(s)) < CharCode(Head(t))
    ELSE StrLess(Tail(s), Tail(t))

(***************************************************************************)
(* Tables.  A row is [city, date, aqi]: city is NaN or Some(string), aqi   *)
(* is NaN or Num(fixed-point value).                                       *)
(***************************************************************************)
CityLabels == {Some(<<"D">>), Some(<<"d", " ">>), NaN}
Dates == {1, 2}
RawAqi == {Num(10 * Scale), Num(50 * Scale), NaN}
RawRows == [city : CityLabels, date : Dates, aqi : RawAqi]

RECURSIVE SeqsUpTo(_, _)
SeqsUpTo(S, n) ==
    IF n = 0 THEN {<<>>}
    ELSE LET shorter == SeqsUpTo(S, n - 1)
         IN shorter \cup {Append(q, x) : q \in {r \in shorter : Len(r) = n - 1}, x \in S}

RawTables == SeqsUpTo(RawRows, MaxRows)

RECURSIVE DropNaNAqi(_)
DropNaNAqi(t) ==
    IF t = <<>> THEN <<>>
    ELSE IF IsNaN(Head(t).aqi) THEN DropNaNAqi(Tail(t))
    ELSE <<Head(t)>> \o DropNaNAqi(Tail(t))

\* Row order of sort_values(['city', 'date']): city ascending with the
\* missing labels last, then date.
CityDateLess(a, b) ==
    IF a.city = b.city THEN a.date < b.date
    ELSE IF IsNaN(a.city) THEN FALSE
    ELSE IF IsNaN(b.city) THEN TRUE
    ELSE StrLess(Val(a.city), Val(b.city))

RECURSIVE InsertByCityDate(_, _)
InsertByCityDate(r, t) ==
    IF t = <<>> THEN <<r>>
    ELSE IF CityDateLess(r, Head(t)) THEN <<r>> \o t
    ELSE <<Head(t)>> \o InsertByCityDate(r, Tail(t))

\* Stable sort: a row goes after the rows that are not greater than it.
RECURSIVE SortByCityDate(_)
SortByCityDate(t) ==
    IF t = <<>> THEN <<>>
    ELSE InsertByCityDate(t[Len(t)], SortByCityDate(SubSeq(t, 1, Len(t) - 1)))

\* The normalization of load_full_dataset on a table whose columns are
\* already named: rows without a numeric AQI are dropped, the rest sorted.
Normalize(raw) == SortByCityDate(DropNaNAqi(raw))

\* The file on disk: absent, present but not loadable (read_csv or the
\* column handling raises), or a table.
AbsentFile == [kind |-> "absent", rows |-> <<>>]
GarbledFile == [kind |-> "garbled", rows |-> <<>>]
TableFile(raw) == [kind |-> "table", rows |-> raw]
Files == {AbsentFile, GarbledFile} \cup {TableFile(raw) : raw \in RawTables}

NoTable == [id |-> 0, rows |-> <<>>]
Threads == 1..NThreads

(***************************************************************************)
(* load_full_dataset as one step (a request that runs alone).  The result  *)
(* is [cache, loads, ret]: the cache and the load count afterwards and the *)
(* returned table, NoTable standing for None.                              *)
(***************************************************************************)
LoadFullDataset(c, f, n) ==
    IF c # NoTable THEN [cache |-> c, loads |-> n, ret |-> c]
    ELSE IF f.kind # "table" THEN [cache |-> c, loads |-> n, ret |-> NoTable]
    ELSE LET df == [id |-> n + 1, rows |-> Normalize(f.rows)]
         IN [cache |-> df, loads |-> n + 1, ret |-> df]

(***************************************************************************)
(* load_and_preprocess_data.                                               *)
(***************************************************************************)
ReqCities ==
    {None, Some(<<>>), Some(AllCities), Some(Lower(AllCities)),
     Some(<<"d">>), Some(<<" ", "D", " ">>), Some(<<"x">>)}

\* `city and city != 'All Cities'`: None and '' are falsy.
FilterApplies(city) ==
    /\ city # None
    /\ Val(city) # <<>>
    /\ Val(city) # AllCities

\* The comparison without the lower-casing.
CityMatchesCaseSensitive(r, city) ==
    /\ ~IsNaN(r.city)
    /\ Strip(Val(r.city)) = Strip(Val(city))

\* df['city'].str.strip().str.lower() == city.strip().lower(); the string
\* methods give NaN on a missing label and NaN equals nothing.
CityMatches(r, city) ==
    /\ ~IsNaN(r.city)
    /\ Lower(Strip(Val(r.city))) = Lower(Strip(Val(city)))

RECURSIVE FilterCity(_, _)
FilterCity(t, city) ==
    IF t = <<>> THEN <<>>
    ELSE IF CityMatches(Head(t), city) THEN <<Head(t)>> \o FilterCity(Tail(t), city)
    ELSE FilterCity(Tail(t), city)

\* df.groupby('city')['aqi'].ffill(): within the rows of one city a missing
\* value takes the last earlier value; the rows whose city is missing belong
\* to no group (dropna) and come out missing.
GroupFfill(t) ==
    [i \in 1..Len(t) |->
        IF IsNaN(t[i].city) THEN NaN
        ELSE IF ~IsNaN(t[i].aqi) THEN t[i].aqi
        ELSE LET prior == {j \in 1..(i - 1) : t[j].city = t[i].city /\ ~IsNaN(t[j].aqi)}
             IN IF prior = {} THEN NaN
                ELSE t[CHOOSE j \in prior : \A k \in prior : k <= j].aqi]

\* Series.bfill() on the whole column: a missing value takes the next value
\* below it, whatever the city of that row.
Bfill(col) ==
    [i \in 1..Len(col) |->
        IF ~IsNaN(col[i]) THEN col[i]
        ELSE LET later == {j \in (i + 1)..Len(col) : ~IsNaN(col[j])}
             IN IF later = {} THEN NaN
                ELSE col[CHOOSE j \in later : \A k \in later : j <= k]]

RECURSIVE SumVals(_)
SumVals(col) ==
    IF col = <<>> THEN 0
    ELSE (IF IsNaN(Head(col)) THEN 0 ELSE Val(Head(col))) + SumVals(Tail(col))

CountVals(col) == Cardinality({i \in 1..Len(col) : ~IsNaN(col[i])})

\* Series.mean(): the missing values are skipped; NaN when nothing is left.
Mean(col) ==
    IF CountVals(col) = 0 THEN NaN
    ELSE Num(SumVals(col) \div CountVals(col))

\* Series.fillna(v): fillna(NaN) fills nothing.
Fillna(col, v) == [i \in 1..Len(col) |-> IF IsNaN(col[i]) THEN v ELSE col[i]]

\* Lines 160-167: the new value of df['aqi'].
FillGaps(t) ==
    LET col == Bfill(GroupFfill(t))
    IN Fillna(col, Mean(col))

WithAqi(t, col) == [i \in 1..Len(t) |-> [t[i] EXCEPT !.aqi = col[i]]]

\* drop_duplicates(subset=['city', 'date'], keep='first'); two missing
\* labels count as equal.
DropDuplicates(t) ==
    LET keep == {i \in 1..Len(t) :
                    \A j \in 1..(i - 1) : ~(t[j].city = t[i].city /\ t[j].date = t[i].date)}
        RECURSIVE Pick(_)
        Pick(i) == IF i > Len(t) THEN <<>>
                   ELSE IF i \in keep THEN <<t[i]>> \o Pick(i + 1)
                   ELSE Pick(i + 1)
    IN Pick(1)

\* sort_values('date') with the default sort, which is not stable: every
\* arrangement of the rows in which the dates ascend.
SortValuesDate(t) ==
    LET n == Len(t)
        orders == {f \in [1..n -> 1..n] :
                      /\ \A i, j \in 1..n : i # j => f[i] # f[j]
                      /\ \A i, j \in 1..n : i < j => t[f[i]].date <= t[f[j]].date}
    IN {[i \in 1..n |-> t[f[i]]] : f \in orders}

(***************************************************************************)
(* calculate_daily_aqi: one row per date, the mean of that date's values,  *)
(* dates ascending.                                                        *)
(***************************************************************************)
RECURSIVE DailyOver(_, _)
DailyOver(t, dates) ==
    IF dates = {} THEN <<>>
    ELSE LET d == CHOOSE x \in dates : \A y \in dates : x <= y
             RECURSIVE Col(_)
             Col(i) == IF i > Len(t) THEN <<>>
                       ELSE IF t[i].date = d THEN <<t[i].aqi>> \o Col(i + 1)
                       ELSE Col(i + 1)
         IN <<[date |-> d, aqi |-> Mean(Col(1))]>> \o DailyOver(t, dates \ {d})

CalculateDailyAqi(t) == DailyOver(t, {t[i].date : i \in 1..Len(t)})

(***************************************************************************)
(* The state of the three parts when they are not running.                 *)
(***************************************************************************)
CacheIdle ==
    /\ pc = [t \in Threads |-> "idle"]
    /\ local = [t \in Threads |-> NoTable]
    /\ ret = [t \in Threads |-> NoTable]

PrepIdle ==
    /\ reqCity = None
    /\ source = <<>>
    /\ filled = <<>>
    /\ prepared = None
    /\ dailyOut = <<>>
    /\ status = 0

ForecastIdle ==
    /\ fpc = "off"
    /\ series = <<>>
    /\ horizon = 0
    /\ arimaAvailable = FALSE
    /\ attempts = <<>>
    /\ raised = {}
    /\ fitted = None
    /\ forecastOut = None

(***************************************************************************)
(* Requests served one at a time: each handler runs to completion.         *)
(***************************************************************************)
Init ==
    /\ file \in Files
    /\ cache = NoTable
    /\ loads = 0
    /\ CacheIdle
    /\ PrepIdle
    /\ ForecastIdle

\* load_and_preprocess_data(DATA_FILE, city).  Without a city filter df is
\* the cached table itself, and the assignments to df['aqi'] are made on it.
LoadAndPreprocessData(city) ==
    LET r == LoadFullDataset(cache, file, loads)
        filters == FilterApplies(city)
        df == IF filters THEN FilterCity(r.ret.rows, city) ELSE r.ret.rows
        col == FillGaps(df)
    IN /\ reqCity' = city
       /\ loads' = r.loads
       /\ IF r.ret = NoTable
          THEN /\ cache' = r.cache
               /\ source' = <<>>
               /\ filled' = <<>>
               /\ prepared' = None
          ELSE IF filters /\ df = <<>>
          THEN /\ cache' = r.cache
               /\ source' = df
               /\ filled' = <<>>
               /\ prepared' = None
          ELSE /\ cache' = IF filters THEN r.cache
                           ELSE [r.cache EXCEPT !.rows = WithAqi(df, col)]
               /\ source' = df
               /\ filled' = col
               /\ \E out \in SortValuesDate(DropDuplicates(WithAqi(df, col))) :
                      prepared' = Some(out)

\* GET /api/daily-trend
DailyTrend(city) ==
    /\ LoadAndPreprocessData(city)
    /\ IF prepared' = None
       THEN status' = 500 /\ dailyOut' = dailyOut
       ELSE status' = 200 /\ dailyOut' = CalculateDailyAqi(Val(prepared'))
    /\ UNCHANGED <<file, pc, local, ret, fcVars>>

Next ==
    \E city \in ReqCities : DailyTrend(city)

Spec == Init /\ [][Next]_vars

(***************************************************************************)
(* load_full_dataset called by concurrent request threads.  The function   *)
(* takes no lock: the test of _data_cache, the reading of the file and the *)
(* assignment to _data_cache are separate steps, and the file may change   *)
(* between them.                                                           *)
(***************************************************************************)
CacheFiles ==
    {AbsentFile, GarbledFile,
     TableFile(<<[city |-> Some(<<"D">>), date |-> 1, aqi |-> Num(10 * Scale)]>>),
     TableFile(<<[city |-> Some(<<"D">>), date |-> 1, aqi |-> NaN],
                 [city |-> NaN, date |-> 2, aqi |-> Num(50 * Scale)]>>)}

InitCache ==
    /\ file \in CacheFiles
    /\ cache = NoTable
    /\ loads = 0
    /\ CacheIdle
    /\ PrepIdle
    /\ ForecastIdle

\* The call without the test of the cache: the file is read every time.
CheckCacheSkipped(t) ==
    /\ pc[t] = "idle"
    /\ pc' = [pc EXCEPT ![t] = "read"]
    /\ UNCHANGED <<file, cache, loads, local, ret, prepVars, fcVars>>

\* Lines 50-51: `if _data_cache is not None: return _data_cache`.
CheckCache(t) ==
    /\ pc[t] = "idle"
    /\ IF cache # NoTable
       THEN /\ ret' = [ret EXCEPT ![t] = cache]
            /\ pc' = [pc EXCEPT ![t] = "done"]
       ELSE /\ ret' = ret
            /\ pc' = [pc EXCEPT ![t] = "read"]
    /\ UNCHANGED <<file, cache, loads, local, prepVars, fcVars>>

\* Lines 53-123 and 130-134: read and normalize the file; any exception
\* makes the call return None.
ReadFile(t) ==
    /\ pc[t] = "read"
    /\ IF file.kind = "table"
       THEN /\ local' = [local EXCEPT ![t] = [id |-> loads + 1, rows |-> Normalize(file.rows)]]
            /\ loads' = loads + 1
            /\ pc' = [pc EXCEPT ![t] = "store"]
            /\ ret' = ret
       ELSE /\ ret' = [ret EXCEPT ![t] = NoTable]
            /\ pc' = [pc EXCEPT ![t] = "done"]
            /\ UNCHANGED <<local, loads>>
    /\ UNCHANGED <<file, cache, prepVars, fcVars>>

\* Lines 126-128: `_data_cache = df; return df`.
StoreCache(t) ==
    /\ pc[t] = "store"
    /\ cache' = local[t]
    /\ ret' = [ret EXCEPT ![t] = local[t]]
    /\ pc' = [pc EXCEPT ![t] = "done"]
    /\ UNCHANGED <<file, loads, local, prepVars, fcVars>>

\* The request ends; the thread serves the next one.
EndRequest(t) ==
    /\ pc[t] = "done"
    /\ pc' = [pc EXCEPT ![t] = "idle"]
    /\ local' = [local EXCEPT ![t] = NoTable]
    /\ ret' = [ret EXCEPT ![t] = NoTable]
    /\ UNCHANGED <<file, cache, loads, prepVars, fcVars>>

\* The file is replaced, damaged or removed.
ChangeFile ==
    /\ file' \in CacheFiles \ {file}
    /\ UNCHANGED <<cache, loads, pc, local, ret, prepVars, fcVars>>

NextCache ==
    \/ \E t \in Threads : CheckCache(t)
    \/ \E t \in Threads : ReadFile(t)
    \/ \E t \in Threads : StoreCache(t)
    \/ \E t \in Threads : EndRequest(t)
    \/ ChangeFile

SpecCache == InitCache /\ [][NextCache]_vars

\* C7: in every interleaving the dataset is read and normalized at most
\* once, and the cache, once set, is never replaced.
C7_ComputedOnce ==
    [][loads' <= 1 /\ (cache # NoTable => cache' = cache)]_vars

\* C11: a call that fails (the file is missing or cannot be loaded) returns
\* no table and leaves the cache as it was, so a call that starts while the
\* cache is unset goes on to read the file; a call that starts once the
\* cache is set returns the cached table without reading the file; and the
\* cache, once set, is never unset, whatever happens to the file.
C11_RetryThenCached ==
    [][/\ \A t \in Threads :
              /\ (pc[t] = "read" /\ file.kind # "table" /\ pc'[t] # "read") =>
                     /\ pc'[t] = "done"
                     /\ ret'[t] = NoTable
                     /\ cache' = cache
                     /\ loads' = loads
              /\ (pc[t] = "idle" /\ pc'[t] # "idle" /\ cache = NoTable) =>
                     pc'[t] = "read"
              /\ (pc[t] = "idle" /\ pc'[t] # "idle" /\ cache # NoTable) =>
                     /\ pc'[t] = "done"
                     /\ ret'[t] = cache
                     /\ cache' = cache
                     /\ loads' = loads
       /\ cache # NoTable => cache' # NoTable
       /\ file' # file => cache' = cache]_vars

\* One call has failed and returned no table, the dataset was loaded once,
\* another call has returned the cached table without building one itself,
\* and the file is gone.
C11_Witness ==
    /\ file = AbsentFile
    /\ cache # NoTable
    /\ loads = 1
    /\ \E t \in Threads : pc[t] = "done" /\ ret[t] = NoTable
    /\ \E t \in Threads : pc[t] = "done" /\ ret[t] = cache /\ local[t] = NoTable

(***************************************************************************)
(* The forecast engine.  A daily series is a sequence of [date, aqi] rows  *)
(* with the dates ascending, as calculate_daily_aqi returns it.            *)
(***************************************************************************)
MinDays == 7         \* line 239
RecentWindow == 7    \* line 243
TrendWindow == 30    \* line 248
SeasonDays == 365    \* line 258
AqiCeiling == 500    \* lines 285 and 292

FirstDate(t) == t[1].date
LastDate(t) == t[Len(t)].date

\* resample('D').mean().ffill().bfill(): one value per calendar day from the
\* first date to the last; a day without a reading takes the value of the
\* latest earlier day that has one (the first day always has one).
Regularize(t) ==
    IF t = <<>> THEN <<>>
    ELSE [k \in 1..(LastDate(t) - FirstDate(t) + 1) |->
            LET d == FirstDate(t) + k - 1
                upto == {i \in 1..Len(t) : t[i].date <= d}
                i == CHOOSE x \in upto : \A y \in upto : y <= x
            IN t[i].aqi]

TailOf(v, n) == SubSeq(v, Len(v) - n + 1, Len(v))

RECURSIVE Sum(_)
Sum(v) == IF v = <<>> THEN 0 ELSE Head(v) + Sum(Tail(v))

\* The largest r with r * r <= n.
RECURSIVE IsqrtFrom(_, _, _)
IsqrtFrom(n, lo, hi) ==
    IF lo >= hi THEN lo
    ELSE LET mid == (lo + hi + 1) \div 2
         IN IF mid * mid <= n THEN IsqrtFrom(n, mid, hi) ELSE IsqrtFrom(n, lo, mid - 1)

Isqrt(n) == IsqrtFrom(n, 0, AqiCeiling * Scale * 4)

MeanOf(v) == Sum(v) \div Len(v)

\* Series.std(): the sample standard deviation (ddof = 1), NaN for fewer
\* than two values.
StdOf(v) ==
    IF Len(v) < 2 THEN NaN
    ELSE LET m == MeanOf(v)
             sq == [i \in 1..Len(v) |-> (v[i] - m) * (v[i] - m)]
         IN Num(Isqrt(Sum(sq) \div (Len(v) - 1)))

\* np.polyfit(x, y, 1)[0] with x = 0..n-1: the least-squares slope.
TrendSlope(v) ==
    IF Len(v) > 1
    THEN LET n == Len(v)
             sx == Sum([i \in 1..n |-> i - 1])
             sxx == Sum([i \in 1..n |-> (i - 1) * (i - 1)])
             sy == Sum(v)
             sxy == Sum([i \in 1..n |-> (i - 1) * v[i]])
         IN (n * sxy - sx * sy) \div (n * sxx - sx * sx)
    ELSE 0

\* Timestamp.dayofyear on a calendar whose day 1 is 1 January, leap years
\* left out.
DayOfYear(d) == ((d - 1) % 365) + 1

\* df_ts.groupby('day_of_year')['aqi'].mean(): the pattern is defined on the
\* days of the year the history has.
SeasonalDays(first, v) == {DayOfYear(first + k - 1) : k \in 1..Len(v)}

SeasonalPattern(first, v, doy) ==
    LET ks == {k \in 1..Len(v) : DayOfYear(first + k - 1) = doy}
        RECURSIVE Total(_)
        Total(S) == IF S = {} THEN 0
                    ELSE LET k == CHOOSE x \in S : TRUE IN v[k] + Total(S \ {k})
    IN Total(ks) \div Cardinality(ks)

\* The range started on the last date itself.
ForecastDatesFromLast(last, n) == [i \in 1..n |-> last + i - 1]

\* pd.date_range(start=last_date + timedelta(days=1), periods=n, freq='D')
ForecastDates(last, n) == [i \in 1..n |-> last + i]

\* Lines 273-292: one forecast row of forecast_aqi_simple (i counts from 0).
SimpleRow(v, first, i, date) ==
    LET n == Len(v)
        recent == TailOf(v, Min2(RecentWindow, n))
        recentMean == MeanOf(recent)
        recentStd == StdOf(recent)
        slope == TrendSlope(TailOf(v, Min2(TrendWindow, n)))
        trended == recentMean + slope * (i + 1)
        seasonal ==
            IF n >= SeasonDays /\ DayOfYear(date) \in SeasonalDays(first, v)
            THEN ((SeasonalPattern(first, v, DayOfYear(date)) - recentMean) * 3) \div 10
            ELSE 0
        base == Max2(0, Min2(AqiCeiling * Scale, trended + seasonal))
        range == IF ~IsNaN(recentStd) THEN (Val(recentStd) * 196) \div 100
                 ELSE (recentMean * 2) \div 10
    IN [date |-> date,
        aqi |-> base,
        lower_bound |-> Max2(0, base - range),
        upper_bound |-> Min2(AqiCeiling * Scale, base + range)]

\* forecast_aqi_simple: None when the regular series has fewer than MinDays
\* days (the ValueError is caught at line 304), else the forecast table.
ForecastAqiSimple(t, days) ==
    LET v == Regularize(t)
    IN IF Len(v) < MinDays THEN None
       ELSE LET dates == ForecastDates(LastDate(t), days)
            IN Some([from |-> "simple",
                     rows |-> [i \in 1..days |->
                                  SimpleRow(v, FirstDate(t), i - 1, dates[i])]])

\* The first two orders exchanged.
OrdersSwapped == <<"ARIMA(1,0,1)", "ARIMA(1,1,1)", "ARIMA(1,0,0)">>

\* The orders of the nested try blocks, lines 342, 347 and 351.
Orders == <<"ARIMA(1,1,1)", "ARIMA(1,0,1)", "ARIMA(1,0,0)">>

\* What a fitted model may give for forecast() and conf_int(): a point
\* forecast inside its interval, which widens with the step; nothing keeps
\* it inside [0, 500].
ArimaOutcomes ==
    [lo : {100 * Scale}, mid : {200 * Scale}, hi : {300 * Scale}, widen : {0, 30 * Scale}]
    \cup [lo : {-80 * Scale}, mid : {10 * Scale}, hi : {100 * Scale}, widen : {0, 30 * Scale}]
    \cup [lo : {380 * Scale}, mid : {470 * Scale}, hi : {560 * Scale}, widen : {0, 30 * Scale}]

\* Lines 358-368: the forecast table built from the fitted model's output.
ArimaTable(order, t, days, o) ==
    LET dates == ForecastDates(LastDate(t), days)
    IN [from |-> order,
        rows |-> [i \in 1..days |->
                     [date |-> dates[i],
                      aqi |-> o.mid,
                      lower_bound |-> o.lo - (i - 1) * o.widen,
                      upper_bound |-> o.hi + (i - 1) * o.widen]]]

\* The daily series the engine is called with.
Shapes == 1..4
ShapeValue(shape, d) ==
    CASE shape = 1 -> 100 * Scale
      [] shape = 2 -> 90 * d * Scale
      [] shape = 3 -> Max2(0, (300 - 60 * d) * Scale)
      [] OTHER -> IF d % 2 = 1 THEN 20 * Scale ELSE 480 * Scale

RECURSIVE SeriesOver(_, _)
SeriesOver(dates, shape) ==
    IF dates = {} THEN <<>>
    ELSE LET d == CHOOSE x \in dates : \A y \in dates : x <= y
         IN <<[date |-> d, aqi |-> ShapeValue(shape, d)]>> \o SeriesOver(dates \ {d}, shape)

\* Two readings a year apart: the regular series is long enough for the
\* seasonal pattern.
LongSeries ==
    {<<[date |-> 1, aqi |-> a * Scale], [date |-> SeasonDays + 1, aqi |-> b * Scale]>> :
        a \in {100, 400}, b \in {100}}

DailySeries ==
    {SeriesOver(D, sh) : D \in SUBSET (1..MaxSeriesDate), sh \in Shapes} \cup LongSeries

InitForecast ==
    /\ file = AbsentFile
    /\ cache = NoTable
    /\ loads = 0
    /\ CacheIdle
    /\ PrepIdle
    /\ fpc = "start"
    /\ series \in DailySeries
    /\ horizon \in 0..MaxHorizon
    /\ arimaAvailable \in BOOLEAN
    /\ attempts = <<>>
    /\ raised = {}
    /\ fitted = None
    /\ forecastOut = None

\* An except clause that only covers the fitting.
AbsorbsFitOnly(stage) == stage = "fit"

\* The except clause of line 372 takes whatever the try block raised, at
\* the last fit or while forecasting.
Absorbs(stage) == stage \in {"fit", "forecast"}

\* Lines 324-325: without statsmodels the call is forecast_aqi_simple.
Unavailable ==
    /\ fpc = "start"
    /\ ~arimaAvailable
    /\ attempts' = Append(attempts, "simple")
    /\ forecastOut' = ForecastAqiSimple(series, horizon)
    /\ fpc' = "done"
    /\ UNCHANGED <<series, horizon, arimaAvailable, raised, fitted, cacheVars, prepVars>>

\* Lines 327-336: the try block is entered and the series regularized.
Enter ==
    /\ fpc = "start"
    /\ arimaAvailable
    /\ fpc' = "fit"
    /\ UNCHANGED <<series, horizon, arimaAvailable, attempts, raised, fitted, forecastOut,
                   cacheVars, prepVars>>

\* ARIMA(...).fit() of the next order succeeds.
FitSucceeds ==
    /\ fpc = "fit"
    /\ LET order == Orders[Len(attempts) + 1]
       IN /\ attempts' = Append(attempts, order)
          /\ fitted' = Some(order)
    /\ fpc' = "forecast"
    /\ UNCHANGED <<series, horizon, arimaAvailable, raised, forecastOut, cacheVars, prepVars>>

\* ARIMA(...).fit() of the next order raises: the bare except moves to the
\* next order; the last order's exception leaves the try block.
FitRaises ==
    /\ fpc = "fit"
    /\ LET order == Orders[Len(attempts) + 1]
       IN /\ attempts' = Append(attempts, order)
          /\ raised' = raised \cup {[strategy |-> order, stage |-> "fit"]}
          /\ IF Len(attempts) + 1 < Len(Orders)
             THEN fpc' = "fit"
             ELSE fpc' = IF Absorbs("fit") THEN "fallback" ELSE "raised"
    /\ UNCHANGED <<series, horizon, arimaAvailable, fitted, forecastOut, cacheVars, prepVars>>

\* Lines 355-370: the fitted model forecasts and the table is returned.
ForecastSucceeds ==
    /\ fpc = "forecast"
    /\ series # <<>>
    /\ \E o \in ArimaOutcomes :
           forecastOut' = Some(ArimaTable(Val(fitted), series, horizon, o))
    /\ fpc' = "done"
    /\ UNCHANGED <<series, horizon, arimaAvailable, attempts, raised, fitted, cacheVars, prepVars>>

\* Lines 355-368 raise (forecast, get_forecast, df_ts.index[-1] of an empty
\* series, the DataFrame constructor).
ForecastRaises ==
    /\ fpc = "forecast"
    /\ raised' = raised \cup {[strategy |-> Val(fitted), stage |-> "forecast"]}
    /\ fpc' = IF Absorbs("forecast") THEN "fallback" ELSE "raised"
    /\ UNCHANGED <<series, horizon, arimaAvailable, attempts, fitted, forecastOut,
                   cacheVars, prepVars>>

\* Lines 372-376: the fallback to forecast_aqi_simple.
Fallback ==
    /\ fpc = "fallback"
    /\ attempts' = Append(attempts, "simple")
    /\ forecastOut' = ForecastAqiSimple(series, horizon)
    /\ fpc' = "done"
    /\ UNCHANGED <<series, horizon, arimaAvailable, raised, fitted, cacheVars, prepVars>>

NextForecast ==
    \/ Unavailable
    \/ Enter
    \/ FitSucceeds
    \/ FitRaises
    \/ ForecastSucceeds
    \/ ForecastRaises
    \/ Fallback

SpecForecast == InitForecast /\ [][NextForecast]_vars

(***************************************************************************)
(* Claims about the forecast engine, checked under SpecForecast.           *)
(***************************************************************************)
HistoryDates == {series[i].date : i \in 1..Len(series)}
MaxHistoryDate == CHOOSE d \in HistoryDates : \A e \in HistoryDates : e <= d
MinHistoryDate == CHOOSE d \in HistoryDates : \A e \in HistoryDates : d <= e

\* The days of the gap-free grid from the first to the last date.
RegularDays == IF series = <<>> THEN 0 ELSE MaxHistoryDate - MinHistoryDate + 1

CallEnded == fpc \in {"done", "raised"}

\* C1: every entry of a returned forecast has
\* 0 <= lower_bound <= aqi <= upper_bound <= 500.
C1_BoundsOrdered ==
    forecastOut # None =>
        \A i \in 1..Len(Val(forecastOut).rows) :
            LET r == Val(forecastOut).rows[i]
            IN /\ 0 <= r.lower_bound
               /\ r.lower_bound <= r.aqi
               /\ r.aqi <= r.upper_bound
               /\ r.upper_bound <= 500 * Scale

\* C2: a returned forecast has horizon_days entries, dated with the
\* consecutive days that start the day after the last historical date.
C2_DatesFollow ==
    forecastOut # None =>
        /\ Len(Val(forecastOut).rows) = horizon
        /\ \A i \in 1..horizon : Val(forecastOut).rows[i].date = MaxHistoryDate + i

\* A forecast of several days from a series with missing days.
C2_Witness ==
    /\ forecastOut # None
    /\ horizon >= 2
    /\ Len(series) < RegularDays
    /\ Len(series) > 2

\* C3: with fewer than 7 regular days the call returns no forecast, whether
\* or not ARIMA is available.
C3_TooShortFails ==
    (CallEnded /\ RegularDays < 7) => forecastOut = None

AllOrdersFailedToFit ==
    \A k \in 1..3 :
        [strategy |-> <<"ARIMA(1,1,1)", "ARIMA(1,0,1)", "ARIMA(1,0,0)">>[k], stage |-> "fit"]
            \in raised

ForecastingFailed == \E r \in raised : r.stage = "forecast"

\* C4: for a series of at least 7 regular days no failure of the primary
\* model reaches the caller: the call never ends with an exception, it
\* returns a forecast, and when ARIMA is unavailable, or all three orders
\* failed to fit, or forecasting from the fitted model raised, the forecast
\* is the fallback's, with horizon_days entries.
C4_FailuresAbsorbed ==
    RegularDays >= 7 =>
        /\ fpc # "raised"
        /\ fpc = "done" => forecastOut # None
        /\ (fpc = "done" /\ (~arimaAvailable \/ AllOrdersFailedToFit \/ ForecastingFailed)) =>
               /\ Val(forecastOut).from = "simple"
               /\ Len(Val(forecastOut).rows) = horizon

\* Forecasting from a fitted model raised and the caller got the fallback's
\* forecast.
C4_Witness ==
    /\ RegularDays >= 7
    /\ fpc = "done"
    /\ ForecastingFailed
    /\ forecastOut # None
    /\ Val(forecastOut).from = "simple"
    /\ horizon > 0

Ladder == <<"ARIMA(1,1,1)", "ARIMA(1,0,1)", "ARIMA(1,0,0)", "simple">>
Rung(s) == CHOOSE k \in 1..4 : Ladder[k] = s
HasRaised(s) == \E r \in raised : r.strategy = s
FailedToFit(s) == [strategy |-> s, stage |-> "fit"] \in raised
Attempted == {attempts[i] : i \in 1..Len(attempts)}

\* The forecast comes from the last strategy attempted, and an ARIMA order
\* it comes from has not raised.
FromFirstSuccess ==
    (fpc = "done" /\ forecastOut # None) =>
        /\ Val(forecastOut).from = attempts[Len(attempts)]
        /\ ~HasRaised(Val(forecastOut).from)

Answered == status # 0 /\ cache # NoTable

\* The rows of the cached table whose city equals the requested one after
\* trimming and lower-casing both.
EqualCityRows ==
    {i \in 1..Len(cache.rows) :
        /\ cache.rows[i].city # NaN
        /\ Lower(Strip(Val(cache.rows[i].city))) = Lower(Strip(Val(reqCity)))}

Keys(t) == [i \in 1..Len(t) |-> <<t[i].city, t[i].date>>]

\* C5: a call with a city that is given (not None and not the empty string,
\* which the code treats as no city) and is not "All Cities" returns no
\* table exactly when no row of the dataset has that city after trimming
\* and ignoring case, and otherwise works on exactly the rows that have it;
\* a call without a city, or with the sentinel, works on all rows.
C5_CityFilter ==
    Answered =>
        IF reqCity # None /\ reqCity # Some(<<>>) /\ reqCity # Some(AllCities)
        THEN /\ (prepared = None) <=> (EqualCityRows = {})
             /\ Len(source) = Cardinality(EqualCityRows)
        ELSE /\ prepared # None
             /\ Keys(source) = Keys(cache.rows)

\* A request for " D " is served from a row labelled "d " while another row
\* of the dataset is left out.
C5_Witness ==
    /\ Answered
    /\ reqCity = Some(<<" ", "D", " ">>)
    /\ prepared # None
    /\ \E i \in 1..Len(source) : source[i].city = Some(<<"d", " ">>)
    /\ Len(source) < Len(cache.rows)

\* C6: once the cache holds the dataset, no request changes it.
C6_CacheNeverWritten == [][cache # NoTable => cache' = cache]_vars

\* C8: a prepared table has no missing AQI value.
C8_NoNaNSurvives ==
    prepared # None =>
        \A i \in 1..Len(Val(prepared)) : ~IsNaN(Val(prepared)[i].aqi)

\* C10: after the gap filling every AQI value of a row is a reading of the
\* same city: nothing is filled in from the rows of another city.
C10_FilledFromSameCity ==
    \A i \in 1..Len(filled) :
        ~IsNaN(filled[i]) =>
            \E j \in 1..Len(source) :
                source[j].city = source[i].city /\ source[j].aqi = filled[i]

====
